---- MODULE Spec2Model ----
(***************************************************************************)
(* redis-stores: the value codec (recursiveSerialize / recursiveParse and  *)
(* the string-store parsers built on them), the search query compiler      *)
(* (JsonSearchStore.buildQuery / query) and the index differ and           *)
(* initialisation (JsonSearchStore.hasIndexChanged / init).                *)
(*                                                                         *)
(* A JavaScript string is modelled as the sequence of its characters, so   *)
(* startsWith, slice, trim, replace, template strings, JSON text and ISO   *)
(* dates are computed character by character.                              *)
(***************************************************************************)
EXTENDS Integers, Sequences, FiniteSets, TLC

VARIABLES
    \* value codec
    store,      \* which store class handles the value
    value,      \* the value handed to set()
    encoded,    \* what serialisation produced (what the backing store holds)
    decoded,    \* what get() hands back
    cpc         \* position of the set/get round trip

codecVars == <<store, value, encoded, decoded, cpc>>

VARIABLES
    \* JsonSearchStore
    schema,     \* options.schema: the declared fields, alias by alias
    options,    \* the argument of query()
    commands,   \* the commands sent to the store client, in order
    result,     \* what the call returned or threw
    qpc         \* position of the query() call

queryVars == <<schema, options, commands, result, qpc>>

VARIABLES
    \* JsonSearchStore.init and the index the store holds under the store's name
    prefix,     \* options.prefix
    index,      \* the live index: <<>> when there is none, else <<its FT.INFO>>
    ipc,        \* position of the init() call
    changed,    \* what hasIndexChanged returned or threw in this init()
    before,     \* the live index when this init() began
    inits,      \* the number of init() calls begun
    crashLog    \* the commands an init() had sent when its process died

indexVars == <<prefix, index, ipc, changed, before, inits, crashLog>>

VARIABLES
    \* a string store (BaseStore + BaseStringStore) and the keys of the database it uses
    kopts,      \* the options the store was constructed with: prefix, separator, ttl
    db,         \* the database: a set of [key, val, ex], one for each key that exists
    dbBefore,   \* the database when the last call began
    call,       \* the last call on the store, its arguments and how it ended
    sent,       \* the commands that call sent
    written,    \* the keys that exist as this store wrote them
    calls       \* the number of calls made

kvVars == <<kopts, db, dbBefore, call, sent, written, calls>>

vars == <<codecVars, queryVars, indexVars, kvVars>>

(***************************************************************************)
(* Bounds                                                                  *)
(***************************************************************************)
MaxValueSize == 3
MaxWhereSize == 6
MaxTermLen == 4
MaxInits == 2
MaxMantissa == 12
MaxRawLen == 3
MaxCalls == 2

(***************************************************************************)
(* JavaScript values                                                       *)
(***************************************************************************)
Null == [t |-> "null", v |-> <<>>]
Undefined == [t |-> "undefined", v |-> <<>>]
Bool(b) == [t |-> "boolean", v |-> b]
Num(n) == [t |-> "number", v |-> n]
Str(s) == [t |-> "string", v |-> s]
\* a Date holds a time value: <<ms>> for an instant, <<>> for NaN (Invalid Date)
DateOf(ms) == [t |-> "date", v |-> <<ms>>]
InvalidDate == [t |-> "date", v |-> <<>>]
Arr(s) == [t |-> "array", v |-> s]
\* an object is the sequence of its own entries [k, v] in insertion order
Obj(e) == [t |-> "object", v |-> e]
\* a thrown exception, as the outcome of a call
Throw(name) == [t |-> "throw", v |-> name]
Thrown(x) == x.t = "throw"
\* no value yet
None == [t |-> "none", v |-> <<>>]

\* the variables of a part of the program that a specification leaves aside
IdleCodec == store = "none" /\ value = None /\ encoded = None /\ decoded = None /\ cpc = "idle"
IdleQuery ==
    /\ schema = <<>> /\ options = <<>> /\ commands = <<>> /\ result = None /\ qpc = "idle"
IdleIndex ==
    /\ prefix = Undefined /\ index = <<>> /\ ipc = "idle" /\ changed = None
    /\ before = <<>> /\ inits = 0 /\ crashLog = <<>>

NoCall == [op |-> "none", id |-> Undefined, val |-> <<>>, options |-> <<>>, kvs |-> <<>>, outcome |-> None]
IdleKv ==
    /\ kopts = <<>> /\ db = {} /\ dbBefore = {} /\ call = NoCall /\ sent = <<>>
    /\ written = {} /\ calls = 0

\* a === b on values that are not objects
StrictEquals(a, b) == a.t = b.t /\ a.v = b.v

\* x.map(f) / Object.entries(x).map(...) where f may throw: the first throw wins
FirstThrown(s) == s[CHOOSE i \in DOMAIN s : Thrown(s[i]) /\ \A j \in DOMAIN s : j < i => ~Thrown(s[j])]
AnyThrown(s) == \E i \in DOMAIN s : Thrown(s[i])

\* deep equality of two values: same kind and same content, objects compared by
\* their keys whatever the order of the entries
RECURSIVE DeepEquals(_, _)
DeepEquals(a, b) ==
    /\ a.t = b.t
    /\ IF a.t = "array" THEN
            /\ Len(a.v) = Len(b.v)
            /\ \A i \in DOMAIN a.v : DeepEquals(a.v[i], b.v[i])
       ELSE IF a.t = "object" THEN
            /\ Len(a.v) = Len(b.v)
            /\ \A i \in DOMAIN a.v : \E j \in DOMAIN b.v :
                   a.v[i].k = b.v[j].k /\ DeepEquals(a.v[i].v, b.v[j].v)
       ELSE a.v = b.v

startsWith(s, p) == Len(s) >= Len(p) /\ SubSeq(s, 1, Len(p)) = p
slice(s, n) == SubSeq(s, n + 1, Len(s))

(***************************************************************************)
(* Date.prototype.toISOString and new Date(string), for the 24-character   *)
(* form YYYY-MM-DDTHH:mm:ss.sssZ                                           *)
(***************************************************************************)
Digits == <<"0", "1", "2", "3", "4", "5", "6", "7", "8", "9">>
IsDigit(c) == \E d \in 1..10 : Digits[d] = c
DigitVal(c) == (CHOOSE d \in 1..10 : Digits[d] = c) - 1

RECURSIVE Pad(_, _)
Pad(n, w) == IF w = 0 THEN <<>> ELSE Append(Pad(n \div 10, w - 1), Digits[(n % 10) + 1])

RECURSIVE DigitsVal(_)
DigitsVal(s) == IF s = <<>> THEN 0 ELSE 10 * DigitsVal(SubSeq(s, 1, Len(s) - 1)) + DigitVal(s[Len(s)])

MsPerDay == 24 * 60 * 60 * 1000

\* the civil date of a day number (days since 1970-01-01), proleptic Gregorian
CivilFromDays(days) ==
    LET z == days + 719468
        era == z \div 146097
        doe == z - era * 146097
        yoe == (doe - (doe \div 1460) + (doe \div 36524) - (doe \div 146096)) \div 365
        doy == doe - (365 * yoe + (yoe \div 4) - (yoe \div 100))
        mp == (5 * doy + 2) \div 153
        d == doy - ((153 * mp + 2) \div 5) + 1
        m == IF mp < 10 THEN mp + 3 ELSE mp - 9
        y == yoe + era * 400 + (IF m <= 2 THEN 1 ELSE 0)
    IN [y |-> y, m |-> m, d |-> d]

DaysFromCivil(y0, m, d) ==
    LET y == IF m <= 2 THEN y0 - 1 ELSE y0
        era == y \div 400
        yoe == y - era * 400
        doy == ((153 * (IF m > 2 THEN m - 3 ELSE m + 9) + 2) \div 5) + d - 1
        doe == yoe * 365 + (yoe \div 4) - (yoe \div 100) + doy
    IN era * 146097 + doe - 719468

toISOString(ms) ==
    LET c == CivilFromDays(ms \div MsPerDay)
        r == ms % MsPerDay
    IN Pad(c.y, 4) \o <<"-">> \o Pad(c.m, 2) \o <<"-">> \o Pad(c.d, 2) \o <<"T">>
       \o Pad(r \div 3600000, 2) \o <<":">> \o Pad((r \div 60000) % 60, 2) \o <<":">>
       \o Pad((r \div 1000) % 60, 2) \o <<".">> \o Pad(r % 1000, 3) \o <<"Z">>

\* the time value of new Date(s): <<ms>>, or <<>> (NaN) when s is not a date
DateParse(s) ==
    LET shape == /\ Len(s) = 24
                 /\ \A i \in {1, 2, 3, 4, 6, 7, 9, 10, 12, 13, 15, 16, 18, 19, 21, 22, 23} : IsDigit(s[i])
                 /\ s[5] = "-" /\ s[8] = "-" /\ s[11] = "T" /\ s[14] = ":" /\ s[17] = ":"
                 /\ s[20] = "." /\ s[24] = "Z"
    IN IF ~shape THEN <<>>
       ELSE LET y == DigitsVal(SubSeq(s, 1, 4))
                mo == DigitsVal(SubSeq(s, 6, 7))
                d == DigitsVal(SubSeq(s, 9, 10))
                h == DigitsVal(SubSeq(s, 12, 13))
                mi == DigitsVal(SubSeq(s, 15, 16))
                se == DigitsVal(SubSeq(s, 18, 19))
                ms == DigitsVal(SubSeq(s, 21, 23))
            IN IF mo \in 1..12 /\ d \in 1..31 /\ h < 24 /\ mi < 60 /\ se < 60
               THEN <<DaysFromCivil(y, mo, d) * MsPerDay + h * 3600000 + mi * 60000 + se * 1000 + ms>>
               ELSE <<>>

(***************************************************************************)
(* utils: recursiveSerialize / recursiveParse                              *)
(***************************************************************************)
REDIS_UNDEFINED == <<"R", "E", "D", "I", "S", "_", "U", "N", "D", "E", "F", "I", "N", "E", "D">>
REDIS_DATE == <<"R", "E", "D", "I", "S", "_", "D", "A", "T", "E", ":">>

RECURSIVE recursiveSerialize(_)
recursiveSerialize(val) ==
    IF val.t = "undefined" THEN Str(REDIS_UNDEFINED)
    ELSE IF val.t = "date" THEN
        \* toISOString throws a RangeError on an Invalid Date
        IF val.v = <<>> THEN Throw("RangeError") ELSE Str(REDIS_DATE \o toISOString(val.v[1]))
    ELSE IF val.t = "array" THEN
        LET m == [i \in DOMAIN val.v |-> recursiveSerialize(val.v[i])]
        IN IF AnyThrown(m) THEN FirstThrown(m) ELSE Arr(m)
    ELSE IF val.t = "object" THEN
        LET m == [i \in DOMAIN val.v |-> recursiveSerialize(val.v[i].v)]
        IN IF AnyThrown(m) THEN FirstThrown(m)
           ELSE Obj([i \in DOMAIN val.v |-> [k |-> val.v[i].k, v |-> m[i]]])
    ELSE val

\* recursiveParse handing the whole sentinel string to new Date, prefix included
RECURSIVE recursiveParseNoSlice(_)
recursiveParseNoSlice(val) ==
    IF val.t = "string" /\ val.v = REDIS_UNDEFINED THEN Undefined
    ELSE IF val.t = "string" /\ startsWith(val.v, REDIS_DATE) THEN
        [t |-> "date", v |-> DateParse(val.v)]
    ELSE IF val.t = "array" THEN Arr([i \in DOMAIN val.v |-> recursiveParseNoSlice(val.v[i])])
    ELSE IF val.t = "object" THEN
        Obj([i \in DOMAIN val.v |-> [k |-> val.v[i].k, v |-> recursiveParseNoSlice(val.v[i].v)]])
    ELSE val

RECURSIVE recursiveParse(_)
recursiveParse(val) ==
    IF val.t = "string" /\ val.v = REDIS_UNDEFINED THEN Undefined
    ELSE IF val.t = "string" /\ startsWith(val.v, REDIS_DATE) THEN
        [t |-> "date", v |-> DateParse(slice(val.v, Len(REDIS_DATE)))]
    ELSE IF val.t = "array" THEN Arr([i \in DOMAIN val.v |-> recursiveParse(val.v[i])])
    ELSE IF val.t = "object" THEN
        Obj([i \in DOMAIN val.v |-> [k |-> val.v[i].k, v |-> recursiveParse(val.v[i].v)]])
    ELSE val

(***************************************************************************)
(* JSON.stringify and JSON.parse, on the characters of the JSON text       *)
(***************************************************************************)
RECURSIVE NatChars(_)
NatChars(n) == IF n < 10 THEN <<Digits[n + 1]>> ELSE Append(NatChars(n \div 10), Digits[(n % 10) + 1])

\* Number.prototype.toString of an integer
NumberToString(n) == IF n < 0 THEN <<"-">> \o NatChars(0 - n) ELSE NatChars(n)

RECURSIVE Escape(_)
Escape(s) ==
    IF s = <<>> THEN <<>>
    ELSE (IF Head(s) \in {"\"", "\\"} THEN <<"\\", Head(s)>> ELSE <<Head(s)>>) \o Escape(Tail(s))

Quote(s) == <<"\"">> \o Escape(s) \o <<"\"">>

RECURSIVE Join(_, _)
Join(parts, sep) ==
    IF parts = <<>> THEN <<>>
    ELSE IF Len(parts) = 1 THEN parts[1]
    ELSE parts[1] \o sep \o Join(Tail(parts), sep)

RECURSIVE SelectIndices(_, _)
\* the indices i of 1..n with keep[i], in increasing order
SelectIndices(keep, n) ==
    IF n = 0 THEN <<>>
    ELSE IF keep[n] THEN Append(SelectIndices(keep, n - 1), n) ELSE SelectIndices(keep, n - 1)

\* SerializeJSONProperty: <<text>>, or <<>> where JSON has no text for the value
\* (undefined)
RECURSIVE JSONText(_)
JSONText(val) ==
    IF val.t = "null" THEN <<(<<"n", "u", "l", "l">>)>>
    ELSE IF val.t = "boolean" THEN
        <<(IF val.v THEN <<"t", "r", "u", "e">> ELSE <<"f", "a", "l", "s", "e">>)>>
    ELSE IF val.t = "number" THEN <<NumberToString(val.v)>>
    ELSE IF val.t = "string" THEN <<Quote(val.v)>>
    ELSE IF val.t = "date" THEN
        \* Date.prototype.toJSON: null for an Invalid Date
        <<(IF val.v = <<>> THEN <<"n", "u", "l", "l">> ELSE Quote(toISOString(val.v[1])))>>
    ELSE IF val.t = "array" THEN
        LET texts == [i \in DOMAIN val.v |-> JSONText(val.v[i])]
            parts == [i \in DOMAIN val.v |->
                        IF texts[i] = <<>> THEN <<"n", "u", "l", "l">> ELSE texts[i][1]]
        IN <<(<<"[">> \o Join(parts, <<",">>) \o <<"]">>)>>
    ELSE IF val.t = "object" THEN
        LET texts == [i \in DOMAIN val.v |-> JSONText(val.v[i].v)]
            kept == SelectIndices([i \in DOMAIN val.v |-> texts[i] # <<>>], Len(val.v))
            parts == [j \in DOMAIN kept |-> Quote(val.v[kept[j]].k) \o <<":">> \o texts[kept[j]][1]]
        IN <<(<<"{">> \o Join(parts, <<",">>) \o <<"}">>)>>
    ELSE <<>>

\* JSON.stringify(value): a string, or undefined
JSONstringify(val) == LET r == JSONText(val) IN IF r = <<>> THEN Undefined ELSE Str(r[1])

ParseFail == [ok |-> FALSE, val |-> None, i |-> 0]
ParseOk(val, i) == [ok |-> TRUE, val |-> val, i |-> i]

RECURSIVE ParseStringAt(_, _, _)
\* i is the position after the opening quote
ParseStringAt(s, i, acc) ==
    IF i > Len(s) THEN ParseFail
    ELSE IF s[i] = "\"" THEN ParseOk(Str(acc), i + 1)
    ELSE IF s[i] = "\\" THEN
        IF i + 1 <= Len(s) /\ s[i + 1] \in {"\"", "\\"}
        THEN ParseStringAt(s, i + 2, Append(acc, s[i + 1]))
        ELSE ParseFail
    ELSE ParseStringAt(s, i + 1, Append(acc, s[i]))

RECURSIVE DigitsEnd(_, _)
\* the position after the run of digits starting at i
DigitsEnd(s, i) == IF i <= Len(s) /\ IsDigit(s[i]) THEN DigitsEnd(s, i + 1) ELSE i

ParseNumberAt(s, i) ==
    LET neg == s[i] = "-"
        from == IF neg THEN i + 1 ELSE i
        to == DigitsEnd(s, from)
    IN IF to = from THEN ParseFail
       ELSE LET n == DigitsVal(SubSeq(s, from, to - 1))
            IN ParseOk(Num(IF neg THEN 0 - n ELSE n), to)

LiteralAt(s, i, lit) == i + Len(lit) - 1 <= Len(s) /\ SubSeq(s, i, i + Len(lit) - 1) = lit

\* obj[k] = v on the entries of an object: an existing key keeps its place
SetEntry(entries, k, val) ==
    IF \E i \in DOMAIN entries : entries[i].k = k
    THEN [i \in DOMAIN entries |-> IF entries[i].k = k THEN [k |-> k, v |-> val] ELSE entries[i]]
    ELSE Append(entries, [k |-> k, v |-> val])

RECURSIVE ParseValueAt(_, _), ParseElements(_, _, _), ParseMembers(_, _, _)
ParseValueAt(s, i) ==
    IF i > Len(s) THEN ParseFail
    ELSE IF s[i] = "\"" THEN ParseStringAt(s, i + 1, <<>>)
    ELSE IF s[i] = "[" THEN
        IF i + 1 <= Len(s) /\ s[i + 1] = "]" THEN ParseOk(Arr(<<>>), i + 2)
        ELSE ParseElements(s, i + 1, <<>>)
    ELSE IF s[i] = "{" THEN
        IF i + 1 <= Len(s) /\ s[i + 1] = "}" THEN ParseOk(Obj(<<>>), i + 2)
        ELSE ParseMembers(s, i + 1, <<>>)
    ELSE IF LiteralAt(s, i, <<"n", "u", "l", "l">>) THEN ParseOk(Null, i + 4)
    ELSE IF LiteralAt(s, i, <<"t", "r", "u", "e">>) THEN ParseOk(Bool(TRUE), i + 4)
    ELSE IF LiteralAt(s, i, <<"f", "a", "l", "s", "e">>) THEN ParseOk(Bool(FALSE), i + 5)
    ELSE IF s[i] = "-" \/ IsDigit(s[i]) THEN ParseNumberAt(s, i)
    ELSE ParseFail

ParseElements(s, i, acc) ==
    LET r == ParseValueAt(s, i)
    IN IF ~r.ok \/ r.i > Len(s) THEN ParseFail
       ELSE IF s[r.i] = "," THEN ParseElements(s, r.i + 1, Append(acc, r.val))
       ELSE IF s[r.i] = "]" THEN ParseOk(Arr(Append(acc, r.val)), r.i + 1)
       ELSE ParseFail

ParseMembers(s, i, acc) ==
    IF i > Len(s) \/ s[i] # "\"" THEN ParseFail
    ELSE LET k == ParseStringAt(s, i + 1, <<>>)
         IN IF ~k.ok \/ k.i > Len(s) \/ s[k.i] # ":" THEN ParseFail
            ELSE LET r == ParseValueAt(s, k.i + 1)
                 IN IF ~r.ok \/ r.i > Len(s) THEN ParseFail
                    ELSE IF s[r.i] = "," THEN ParseMembers(s, r.i + 1, SetEntry(acc, k.val.v, r.val))
                    ELSE IF s[r.i] = "}" THEN ParseOk(Obj(SetEntry(acc, k.val.v, r.val)), r.i + 1)
                    ELSE ParseFail

\* JSON.parse(text): the value, or a SyntaxError
JSONparse(text) ==
    LET r == ParseValueAt(text, 1)
    IN IF r.ok /\ r.i = Len(text) + 1 THEN r.val ELSE Throw("SyntaxError")

(***************************************************************************)
(* The stores' value codecs                                                *)
(***************************************************************************)
\* JsonStore.serializeValue / parseValue
serializeValue(val) == recursiveSerialize(val)
parseValue(val) == recursiveParse(val)

\* objectParser built on utils (recursiveSerialize / recursiveParse)
objectParserSerialize(val) ==
    LET r == recursiveSerialize(val) IN IF Thrown(r) THEN r ELSE JSONstringify(r)

objectParserDeserialize(text) ==
    LET r == JSONparse(text) IN IF Thrown(r) THEN r ELSE recursiveParse(r)

\* string-parsers.ts: objectParser built on recursiveReplace and a JSON.parse reviver
RECURSIVE recursiveReplace(_)
recursiveReplace(val) ==
    IF val.t = "date" THEN
        IF val.v = <<>> THEN Throw("RangeError") ELSE Str(REDIS_DATE \o toISOString(val.v[1]))
    ELSE IF val.t = "array" THEN
        LET m == [i \in DOMAIN val.v |-> recursiveReplace(val.v[i])]
        IN IF AnyThrown(m) THEN FirstThrown(m) ELSE Arr(m)
    ELSE IF val.t = "object" THEN
        LET m == [i \in DOMAIN val.v |-> recursiveReplace(val.v[i].v)]
        IN IF AnyThrown(m) THEN FirstThrown(m)
           ELSE Obj([i \in DOMAIN val.v |-> [k |-> val.v[i].k, v |-> m[i]]])
    ELSE val

\* the reviver of JSON.parse, applied bottom-up to every value of the parsed text
RECURSIVE reviver(_)
reviver(val) ==
    IF val.t = "string" /\ startsWith(val.v, REDIS_DATE) THEN
        [t |-> "date", v |-> DateParse(slice(val.v, Len(REDIS_DATE)))]
    ELSE IF val.t = "array" THEN Arr([i \in DOMAIN val.v |-> reviver(val.v[i])])
    ELSE IF val.t = "object" THEN
        Obj([i \in DOMAIN val.v |-> [k |-> val.v[i].k, v |-> reviver(val.v[i].v)]])
    ELSE val

replaceParserSerialize(val) ==
    IF val.t = "undefined" THEN Str(REDIS_UNDEFINED)
    ELSE LET r == recursiveReplace(val) IN IF Thrown(r) THEN r ELSE JSONstringify(r)

replaceParserDeserialize(text) ==
    IF text = REDIS_UNDEFINED THEN Undefined
    ELSE LET r == JSONparse(text) IN IF Thrown(r) THEN r ELSE reviver(r)

(***************************************************************************)
(* JsonSearchStore: the declared schema                                    *)
(***************************************************************************)
\* SchemaFieldTypes
TAG == <<"T", "A", "G">>
TEXT == <<"T", "E", "X", "T">>

\* one field of options.schema: the alias it is declared under, its path and its
\* other properties [k, v] in declaration order
Field(alias, path, props) == [alias |-> alias, path |-> path, props |-> props]
Type(ty) == [k |-> "type", v |-> Str(ty)]

HasAlias(sch, key) == \E i \in DOMAIN sch : sch[i].alias = key
ByAlias(sch, key) == sch[CHOOSE i \in DOMAIN sch : sch[i].alias = key]
\* field[name], or undefined
Prop(field, name) ==
    IF \E i \in DOMAIN field.props : field.props[i].k = name
    THEN field.props[CHOOSE i \in DOMAIN field.props : field.props[i].k = name].v
    ELSE Undefined

(***************************************************************************)
(* JsonSearchStore.buildQuery                                              *)
(***************************************************************************)
AND == <<"A", "N", "D">>
OR == <<"O", "R">>

\* a where object is the sequence of its entries [k, t, v] in insertion order:
\* t = "leaf" (v the characters of the value), t = "array" (v a sequence of
\* where objects) or t = "object" (v one where object)
Leaf(k, val) == [k |-> k, t |-> "leaf", v |-> val]
List(k, children) == [k |-> k, t |-> "array", v |-> children]
Single(k, child) == [k |-> k, t |-> "object", v |-> child]

\* the strings of s joined by sep; s holds Str values
JoinStr(s, sep) == Join([i \in DOMAIN s |-> s[i].v], sep)

\* buildQuery joining the children of OR without the spaces around the bar
RECURSIVE buildQueryTightOr(_, _)
buildQueryTightOr(where, sch) ==
    LET part(e) ==
            IF e.k = AND THEN
                IF e.t # "array" THEN Throw("TypeError: where[key].map is not a function")
                ELSE LET cs == [j \in DOMAIN e.v |-> buildQueryTightOr(e.v[j], sch)]
                     IN IF AnyThrown(cs) THEN FirstThrown(cs)
                        ELSE Str(<<"(">> \o JoinStr(cs, <<" ">>) \o <<")">>)
            ELSE IF e.k = OR THEN
                IF e.t = "array" /\ Len(e.v) = 0
                THEN Throw("Error: More than one condition required for OR")
                ELSE LET cs == [j \in DOMAIN e.v |-> buildQueryTightOr(e.v[j], sch)]
                     IN IF AnyThrown(cs) THEN FirstThrown(cs)
                        ELSE Str(<<"(">> \o JoinStr(cs, <<"|">>) \o <<")">>)
            ELSE LET val == IF HasAlias(sch, e.k) /\ StrictEquals(Prop(ByAlias(sch, e.k), "type"), Str(TAG))
                            THEN <<"{">> \o e.v \o <<"}">>
                            ELSE e.v
                 IN Str(<<"(", "@">> \o e.k \o <<":">> \o val \o <<")">>)
        q == [i \in DOMAIN where |-> part(where[i])]
    IN IF AnyThrown(q) THEN FirstThrown(q) ELSE Str(JoinStr(q, <<" ">>))

\* buildQuery without the check of the OR list
RECURSIVE buildQueryNoOrCheck(_, _)
buildQueryNoOrCheck(where, sch) ==
    LET part(e) ==
            IF e.k = AND THEN
                IF e.t # "array" THEN Throw("TypeError: where[key].map is not a function")
                ELSE LET cs == [j \in DOMAIN e.v |-> buildQueryNoOrCheck(e.v[j], sch)]
                     IN IF AnyThrown(cs) THEN FirstThrown(cs)
                        ELSE Str(<<"(">> \o JoinStr(cs, <<" ">>) \o <<")">>)
            ELSE IF e.k = OR THEN
                LET cs == [j \in DOMAIN e.v |-> buildQueryNoOrCheck(e.v[j], sch)]
                IN IF AnyThrown(cs) THEN FirstThrown(cs)
                   ELSE Str(<<"(">> \o JoinStr(cs, <<" ", "|", " ">>) \o <<")">>)
            ELSE LET val == IF HasAlias(sch, e.k) /\ StrictEquals(Prop(ByAlias(sch, e.k), "type"), Str(TAG))
                            THEN <<"{">> \o e.v \o <<"}">>
                            ELSE e.v
                 IN Str(<<"(", "@">> \o e.k \o <<":">> \o val \o <<")">>)
        q == [i \in DOMAIN where |-> part(where[i])]
    IN IF AnyThrown(q) THEN FirstThrown(q) ELSE Str(JoinStr(q, <<" ">>))

RECURSIVE buildQuery(_, _)
buildQuery(where, sch) ==
    LET part(e) ==
            IF e.k = AND THEN
                \* where[key].map exists on arrays only
                IF e.t # "array" THEN Throw("TypeError: where[key].map is not a function")
                ELSE LET cs == [j \in DOMAIN e.v |-> buildQuery(e.v[j], sch)]
                     IN IF AnyThrown(cs) THEN FirstThrown(cs)
                        ELSE Str(<<"(">> \o JoinStr(cs, <<" ">>) \o <<")">>)
            ELSE IF e.k = OR THEN
                IF e.t = "array" /\ Len(e.v) = 0
                THEN Throw("Error: More than one condition required for OR")
                ELSE LET cs == [j \in DOMAIN e.v |-> buildQuery(e.v[j], sch)]
                     IN IF AnyThrown(cs) THEN FirstThrown(cs)
                        ELSE Str(<<"(">> \o JoinStr(cs, <<" ", "|", " ">>) \o <<")">>)
            ELSE LET val == IF HasAlias(sch, e.k) /\ StrictEquals(Prop(ByAlias(sch, e.k), "type"), Str(TAG))
                            THEN <<"{">> \o e.v \o <<"}">>
                            ELSE e.v
                 IN Str(<<"(", "@">> \o e.k \o <<":">> \o val \o <<")">>)
        \* for (const key in where): the first key that throws ends the loop
        q == [i \in DOMAIN where |-> part(where[i])]
    IN IF AnyThrown(q) THEN FirstThrown(q) ELSE Str(JoinStr(q, <<" ">>))

(***************************************************************************)
(* JsonSearchStore.query                                                   *)
(***************************************************************************)
\* String.prototype.trim; the white space of the model is the space and the tab
WhiteSpace == {" ", "\t"}

RECURSIVE trimStart(_)
trimStart(s) == IF s # <<>> /\ Head(s) \in WhiteSpace THEN trimStart(Tail(s)) ELSE s

RECURSIVE trimEnd(_)
trimEnd(s) ==
    IF s # <<>> /\ s[Len(s)] \in WhiteSpace THEN trimEnd(SubSeq(s, 1, Len(s) - 1)) ELSE s

trim(s) == trimEnd(trimStart(s))

\* text.replace(/ /gm, '*'): every space character becomes a star
replaceSpaces(s) == [i \in DOMAIN s |-> IF s[i] = " " THEN "*" ELSE s[i]]

\* addWildcard; wildcard is FALSE for options.wildcard === false, TRUE when it
\* is not given
addWildcard(text, wildcard) ==
    IF ~wildcard THEN trim(text)
    ELSE <<"*">> \o replaceSpaces(trim(text)) \o <<"*">>

NoSearch == [t |-> "undefined", term |-> <<>>, fields |-> <<>>]
SearchString(term) == [t |-> "string", term |-> term, fields |-> <<>>]
SearchFields(term, fields) == [t |-> "array", term |-> term, fields |-> fields]
SearchNumber == [t |-> "number", term |-> <<>>, fields |-> <<>>]

\* the part of query() that runs before the search command: the query string,
\* or the empty AND list (<<>>), or what was thrown
queryPlan(opts, sch) ==
    LET w == IF opts.where = <<>> THEN <<>> ELSE <<buildQuery(opts.where[1], sch)>>
        se == IF opts.search.t = "undefined" THEN <<>>
              ELSE IF opts.search.t = "string" THEN
                  \* an empty string is falsy
                  IF opts.search.term = <<>> THEN <<>>
                  ELSE <<Str(<<"(">> \o addWildcard(opts.search.term, opts.wildcard) \o <<")">>)>>
              ELSE IF opts.search.t = "array" THEN
                  <<Str(<<"(">>
                        \o Join([i \in DOMAIN opts.search.fields |->
                                    <<"(", "@">> \o opts.search.fields[i] \o <<":">>
                                    \o addWildcard(opts.search.term, opts.wildcard) \o <<")">>],
                                <<" ", "|", " ">>)
                        \o <<")">>)>>
              ELSE <<Throw("Error: Unsupported search type")>>
        parts == w \o se
    IN IF AnyThrown(parts) THEN FirstThrown(parts)
       ELSE IF parts = <<>> THEN Arr(<<>>)
       ELSE Str(JoinStr(parts, <<" ">>))

\* the FT.SEARCH command of rawQuery
Command(cmd, args) == [cmd |-> cmd, args |-> args]
FtSearch(query, limit) == Command("FT.SEARCH", <<query, limit>>)

\* query() up to its await: it returns [], throws, or sends the search command
QueryCall ==
    /\ qpc = "call"
    /\ LET plan == queryPlan(options, schema)
       IN IF plan.t = "string"
          THEN /\ commands' = Append(commands, FtSearch(plan.v, options.limit))
               /\ result' = None
               /\ qpc' = "awaiting"
          ELSE /\ commands' = commands
               /\ result' = plan
               /\ qpc' = "done"
    /\ UNCHANGED <<schema, options, codecVars, indexVars, kvVars>>

\* the reply of the search command: query() returns the documents' values
QueryReply ==
    /\ qpc = "awaiting"
    /\ \E n \in 0..2 :
          result' = Arr([i \in 1..n |-> Obj(<<[k |-> <<"i", "d">>, v |-> Num(i)]>>)])
    /\ qpc' = "done"
    /\ UNCHANGED <<schema, options, commands, codecVars, indexVars, kvVars>>

\* the search command fails: the failure is the caller's
QueryFailure ==
    /\ qpc = "awaiting"
    /\ result' = Throw("ErrorReply")
    /\ qpc' = "done"
    /\ UNCHANGED <<schema, options, commands, codecVars, indexVars, kvVars>>

(***************************************************************************)
(* The filters and search terms handed to query()                          *)
(***************************************************************************)
FieldS == <<"s">>
FieldT == <<"t">>
FieldU == <<"u">>
PathS == <<"$", ".", "s">>
PathT == <<"$", ".", "t">>

\* "t" declared a tag, and "t" declared a text field
Schemas ==
    {<<Field(FieldS, PathS, <<Type(TEXT)>>), Field(FieldT, PathT, <<Type(TAG)>>)>>,
     <<Field(FieldS, PathS, <<Type(TEXT)>>), Field(FieldT, PathT, <<Type(TEXT)>>)>>}

LeafEntries(k) ==
    IF k = FieldS THEN {Leaf(FieldS, <<"x">>)}
    ELSE IF k = FieldT THEN {Leaf(FieldT, <<"x">>), Leaf(FieldT, <<"y">>)}
    ELSE {}

WhereKeys == {FieldS, FieldT, AND, OR}

\* every where object of exactly n nodes: an object counts one, and so does each
\* of its entries
RECURSIVE WhereObjects(_), WhereEntryLists(_, _), WhereEntries(_, _), WhereLists(_)
WhereObjects(n) == IF n < 1 THEN {} ELSE WhereEntryLists(n - 1, WhereKeys)

WhereEntryLists(m, ks) ==
    IF m = 0 THEN {<<>>}
    ELSE UNION {{<<e>> \o r : e \in WhereEntries(k, j), r \in WhereEntryLists(m - j, ks \ {k})} :
                  k \in ks, j \in 1..m}

WhereEntries(k, j) ==
    IF k = AND THEN {List(AND, l) : l \in WhereLists(j - 1)}
                    \cup {Single(AND, o) : o \in WhereObjects(j - 1)}
    ELSE IF k = OR THEN {List(OR, l) : l \in WhereLists(j - 1)}
    ELSE IF j = 1 THEN LeafEntries(k)
    ELSE {}

WhereLists(m) ==
    IF m = 0 THEN {<<>>}
    ELSE UNION {{<<o>> \o r : o \in WhereObjects(j), r \in WhereLists(m - j)} : j \in 1..m}

\* the filter of spec.md section 8, property 5
WhereExample ==
    <<List(AND, <<(<<Leaf(FieldS, <<"x">>)>>),
                  (<<List(OR, <<(<<Leaf(FieldT, <<"x">>)>>), (<<Leaf(FieldT, <<"y">>)>>)>>)>>)>>)>>

Wheres == UNION {WhereObjects(n) : n \in 1..MaxWhereSize} \cup {WhereExample}

RECURSIVE Strings(_, _)
\* every string of at most n characters of cs
Strings(cs, n) ==
    IF n = 0 THEN {<<>>}
    ELSE Strings(cs, n - 1) \cup {Append(s, c) : s \in Strings(cs, n - 1), c \in cs}

\* terms of letters and spaces, and one with tabs around it
Terms == Strings({"a", " "}, MaxTermLen) \cup {<<"\t", "a", " ", "a", "\t">>}

Searches ==
    {NoSearch, SearchNumber}
    \cup {SearchString(term) : term \in Terms}
    \cup {SearchFields(term, fs) : term \in Terms, fs \in {<<>>, <<FieldS>>, <<FieldS, FieldT>>}}

\* every filter with a few searches, and every search with a few filters
QueryOptions ==
    {[where |-> w, search |-> se, wildcard |-> wc, limit |-> 0] :
        w \in {<<o>> : o \in Wheres},
        se \in {NoSearch, SearchString(<<"a", " ", "a">>)},
        wc \in {TRUE}}
    \cup
    {[where |-> w, search |-> se, wildcard |-> wc, limit |-> li] :
        w \in {<<>>, <<(<<>>)>>, <<(<<Leaf(FieldT, <<"x">>)>>)>>},
        se \in Searches,
        wc \in BOOLEAN,
        li \in {0, 10}}

InitQuery ==
    /\ IdleKv /\ IdleCodec /\ IdleIndex
    /\ schema \in Schemas
    /\ options \in QueryOptions
    /\ commands = <<>>
    /\ result = None
    /\ qpc = "call"

NextQuery ==
    \/ QueryCall
    \/ QueryReply
    \/ QueryFailure

SpecQuery == InitQuery /\ [][NextQuery]_vars

(***************************************************************************)
(* Claims about the query compiler                                         *)
(***************************************************************************)
\* the filter trees of the grammar: every node is one entry, a leaf or an AND or
\* OR over a list of nodes, and an OR has at least one child
RECURSIVE GrammarTree(_)
GrammarTree(where) ==
    /\ Len(where) = 1
    /\ \/ where[1].t = "leaf"
       \/ /\ where[1].t = "array"
          /\ where[1].k = OR => Len(where[1].v) >= 1
          /\ \A j \in DOMAIN where[1].v : GrammarTree(where[1].v[j])

\* the query string the grammar gives a filter tree
RECURSIVE Grammar(_, _)
Grammar(where, sch) ==
    LET e == where[1]
        tagged == \E i \in DOMAIN sch :
                      sch[i].alias = e.k /\ \E p \in DOMAIN sch[i].props : sch[i].props[p] = Type(TAG)
    IN IF e.t = "leaf"
       THEN IF tagged THEN <<"(", "@">> \o e.k \o <<":", "{">> \o e.v \o <<"}", ")">>
            ELSE <<"(", "@">> \o e.k \o <<":">> \o e.v \o <<")">>
       ELSE <<"(">>
            \o Join([j \in DOMAIN e.v |-> Grammar(e.v[j], sch)],
                    IF e.k = AND THEN <<" ">> ELSE <<" ", "|", " ">>)
            \o <<")">>

\* C3: a filter tree compiles to the string of the grammar (leaf "(@field:value)",
\* braces around the value of a TAG field, AND children joined by one space and OR
\* children by " | " inside one pair of parentheses); compiling sends nothing to
\* the store: the one command of the call is the search with that string.
C3_CompileFollowsGrammar ==
    (qpc # "call" /\ qpc # "idle" /\ options.where # <<>> /\ GrammarTree(options.where[1])
        /\ options.search = NoSearch)
        => commands = <<FtSearch(Grammar(options.where[1], schema), options.limit)>>

\* the filter of spec.md section 8 property 5 has compiled, "t" being a tag
C3_Witness ==
    /\ qpc = "awaiting"
    /\ options.where = <<WhereExample>> /\ options.search = NoSearch
    /\ StrictEquals(Prop(ByAlias(schema, FieldT), "type"), Str(TAG))
    /\ commands[1].args[1] =
          <<"(", "(", "@", "s", ":", "x", ")", " ", "(", "(", "@", "t", ":", "{", "x", "}", ")",
            " ", "|", " ", "(", "@", "t", ":", "{", "y", "}", ")", ")", ")">>

\* an OR with an empty list somewhere in the filter
RECURSIVE HasEmptyOr(_)
HasEmptyOr(where) ==
    \E i \in DOMAIN where :
        \/ where[i].k = OR /\ where[i].t = "array" /\ where[i].v = <<>>
        \/ where[i].t = "array" /\ \E j \in DOMAIN where[i].v : HasEmptyOr(where[i].v[j])
        \/ where[i].t = "object" /\ HasEmptyOr(where[i].v)

\* every AND of the filter holds a list
RECURSIVE AndsAreLists(_)
AndsAreLists(where) ==
    \A i \in DOMAIN where :
        /\ where[i].t # "object"
        /\ where[i].t = "array" => \A j \in DOMAIN where[i].v : AndsAreLists(where[i].v[j])

\* C4: a filter with an empty OR at any depth makes query() throw before any
\* command is sent; the error is the OR's own unless an AND that holds no list
\* throws first.
C4_EmptyOrAborts ==
    (qpc # "call" /\ qpc # "idle" /\ options.where # <<>> /\ HasEmptyOr(options.where[1]))
        => /\ qpc = "done"
           /\ Thrown(result)
           /\ commands = <<>>
           /\ AndsAreLists(options.where[1])
                 => result = Throw("Error: More than one condition required for OR")

\* an empty OR below an AND, beside a leaf, has made query() throw
C4_Witness ==
    /\ qpc = "done"
    /\ options.where = <<(<<List(AND, <<(<<Leaf(FieldS, <<"x">>)>>), (<<List(OR, <<>>)>>)>>)>>)>>
    /\ Thrown(result)
    /\ commands = <<>>

RECURSIVE CollapseRuns(_)
\* s with every run of white space replaced by one star
CollapseRuns(s) ==
    IF s = <<>> THEN <<>>
    ELSE IF Head(s) \in WhiteSpace
         THEN <<"*">> \o CollapseRuns(trimStart(s))
         ELSE <<Head(s)>> \o CollapseRuns(Tail(s))

\* C5: the term is trimmed, every internal run of white space becomes a single
\* "*" and the result is wrapped in "*"; with wildcard false the trimmed term is
\* used as it is.
C5_WildcardCollapsesRuns ==
    (qpc = "awaiting" /\ options.where = <<>> /\ options.search.t = "string")
        => commands[1].args[1] =
              <<"(">>
              \o (IF options.wildcard
                  THEN <<"*">> \o CollapseRuns(trim(options.search.term)) \o <<"*">>
                  ELSE trim(options.search.term))
              \o <<")">>

\* what the code does hold: every space of the trimmed term becomes one star
WildcardStarsEverySpace ==
    (qpc = "awaiting" /\ options.where = <<>> /\ options.search.t = "string")
        => commands[1].args[1] =
              <<"(">>
              \o (IF options.wildcard
                  THEN <<"*">>
                       \o [i \in DOMAIN trim(options.search.term) |->
                              IF trim(options.search.term)[i] = " " THEN "*"
                              ELSE trim(options.search.term)[i]]
                       \o <<"*">>
                  ELSE trim(options.search.term))
              \o <<")">>

\* C6: with neither where nor search, query() returns [] without an error and
\* without a command; and no search command carries an empty query string.
C6_NoEmptyQueryIsSent ==
    /\ (qpc = "done" /\ options.where = <<>> /\ options.search = NoSearch)
          => result = Arr(<<>>) /\ commands = <<>>
    /\ \A i \in DOMAIN commands : commands[i].cmd = "FT.SEARCH" => commands[i].args[1] # <<>>

\* the first half of C6 alone
NoFilterNoSearchReturnsEmpty ==
    (qpc # "call" /\ qpc # "idle" /\ options.where = <<>> /\ options.search = NoSearch)
        => qpc = "done" /\ result = Arr(<<>>) /\ commands = <<>>

(***************************************************************************)
(* The values handed to the stores                                         *)
(***************************************************************************)
Instants == {0, 0 - 1, 20 * MsPerDay + 3723004}

Atoms ==
    {Null, Undefined, Bool(TRUE), Bool(FALSE), Num(1), Num(0 - 42),
     Str(<<>>), Str(<<"a">>), Str(<<"q", "\"", "\\">>),
     Str(REDIS_UNDEFINED), Str(REDIS_DATE \o toISOString(0)), Str(REDIS_DATE \o <<"x">>),
     InvalidDate}
    \cup {DateOf(ms) : ms \in Instants}

Keys == {<<"a">>, <<"b">>}

\* every value of exactly n nodes (an atom, an array or an object is one node)
RECURSIVE ValuesOfSize(_), ValueLists(_), EntryLists(_, _)
ValuesOfSize(n) ==
    (IF n = 1 THEN Atoms ELSE {})
    \cup {Arr(l) : l \in ValueLists(n - 1)}
    \cup {Obj(e) : e \in EntryLists(n - 1, Keys)}

\* every sequence of values of m nodes in all
ValueLists(m) ==
    IF m = 0 THEN {<<>>}
    ELSE UNION {{<<x>> \o r : x \in ValuesOfSize(k), r \in ValueLists(m - k)} : k \in 1..m}

\* every sequence of entries with distinct keys of ks, the values of m nodes in all
EntryLists(m, ks) ==
    IF m = 0 THEN {<<>>}
    ELSE UNION {{<<[k |-> k, v |-> x]>> \o r : x \in ValuesOfSize(j), r \in EntryLists(m - j, ks \ {k})} :
                  k \in ks, j \in 1..m}

\* the value of spec.md section 8, property 4, and deeper nestings
Examples ==
    {Obj(<<[k |-> <<"a">>, v |-> Arr(<<Num(1), Undefined, DateOf(0)>>)]>>),
     Arr(<<Obj(<<[k |-> <<"a">>, v |-> Arr(<<Arr(<<DateOf(0 - 1), Undefined>>)>>)],
                 [k |-> <<"b">>, v |-> Undefined]>>), Null>>),
     Obj(<<[k |-> <<"b">>, v |-> Obj(<<[k |-> <<"a">>, v |-> Arr(<<Str(<<"a">>), Str(REDIS_UNDEFINED)>>)]>>)]>>)}

Values == UNION {ValuesOfSize(n) : n \in 1..MaxValueSize} \cup Examples

Stores == {"JsonStore", "ObjectStore", "ObjectStore/recursiveReplace"}

(***************************************************************************)
(* set() then get() of one value through one store                         *)
(***************************************************************************)
InitCodec ==
    /\ IdleKv /\ IdleQuery /\ IdleIndex
    /\ store \in Stores
    /\ value \in Values
    /\ encoded = None
    /\ decoded = None
    /\ cpc = "input"

\* JsonStore.set: the serialised document is what the store holds
JsonStoreSet ==
    /\ store = "JsonStore" /\ cpc = "input"
    /\ encoded' = serializeValue(value)
    /\ cpc' = IF Thrown(encoded') THEN "failed" ELSE "stored"
    /\ UNCHANGED <<store, value, decoded, queryVars, indexVars, kvVars>>

\* JsonStore.get
JsonStoreGet ==
    /\ store = "JsonStore" /\ cpc = "stored"
    /\ decoded' = parseValue(encoded)
    /\ cpc' = "read"
    /\ UNCHANGED <<store, value, encoded, queryVars, indexVars, kvVars>>

\* BaseStringStore.set with ObjectStore's valueParser
ObjectStoreSet ==
    /\ store = "ObjectStore" /\ cpc = "input"
    /\ encoded' = objectParserSerialize(value)
    /\ cpc' = IF Thrown(encoded') THEN "failed" ELSE "stored"
    /\ UNCHANGED <<store, value, decoded, queryVars, indexVars, kvVars>>

\* BaseStringStore.get with ObjectStore's valueParser
ObjectStoreGet ==
    /\ store = "ObjectStore" /\ cpc = "stored"
    /\ decoded' = objectParserDeserialize(encoded.v)
    /\ cpc' = "read"
    /\ UNCHANGED <<store, value, encoded, queryVars, indexVars, kvVars>>

\* the same two operations with the objectParser of string-parsers.ts
ReplaceStoreSet ==
    /\ store = "ObjectStore/recursiveReplace" /\ cpc = "input"
    /\ encoded' = replaceParserSerialize(value)
    /\ cpc' = IF Thrown(encoded') THEN "failed" ELSE "stored"
    /\ UNCHANGED <<store, value, decoded, queryVars, indexVars, kvVars>>

ReplaceStoreGet ==
    /\ store = "ObjectStore/recursiveReplace" /\ cpc = "stored"
    /\ decoded' = replaceParserDeserialize(encoded.v)
    /\ cpc' = "read"
    /\ UNCHANGED <<store, value, encoded, queryVars, indexVars, kvVars>>

NextCodec ==
    \/ JsonStoreSet
    \/ JsonStoreGet
    \/ ObjectStoreSet
    \/ ObjectStoreGet
    \/ ReplaceStoreSet
    \/ ReplaceStoreGet

SpecCodec == InitCodec /\ [][NextCodec]_vars

(***************************************************************************)
(* Claims about the value codec                                            *)
(***************************************************************************)
\* a string of the value, at any depth, reads as a sentinel: it equals
\* REDIS_UNDEFINED or starts with REDIS_DATE:
RECURSIVE HasSentinelString(_)
HasSentinelString(val) ==
    IF val.t = "string" THEN val.v = REDIS_UNDEFINED \/ startsWith(val.v, REDIS_DATE)
    ELSE IF val.t = "array" THEN \E i \in DOMAIN val.v : HasSentinelString(val.v[i])
    ELSE IF val.t = "object" THEN \E i \in DOMAIN val.v : HasSentinelString(val.v[i].v)
    ELSE FALSE

RECURSIVE HasInvalidDate(_)
HasInvalidDate(val) ==
    IF val.t = "date" THEN val.v = <<>>
    ELSE IF val.t = "array" THEN \E i \in DOMAIN val.v : HasInvalidDate(val.v[i])
    ELSE IF val.t = "object" THEN \E i \in DOMAIN val.v : HasInvalidDate(val.v[i].v)
    ELSE FALSE

IsSentinelLiteral(val) == val.t = "string" /\ val.v = REDIS_UNDEFINED

NestedExample == Obj(<<[k |-> <<"a">>, v |-> Arr(<<Num(1), Undefined, DateOf(0)>>)]>>)

\* C1 as stated: for every value other than the string "REDIS_UNDEFINED" itself,
\* recursiveParse(recursiveSerialize(v)) deep-equals v.
C1_RoundTripExceptSentinelLiteral ==
    (store = "JsonStore" /\ cpc = "read" /\ ~IsSentinelLiteral(value))
        => DeepEquals(decoded, value)

\* C1 amended: for every value that holds, at any depth, no string equal to
\* "REDIS_UNDEFINED", no string starting with "REDIS_DATE:" and no Invalid Date,
\* recursiveSerialize does not throw and recursiveParse(recursiveSerialize(v))
\* deep-equals v (a Date comes back as a Date of the same instant).
C1_RoundTripWithoutSentinelStrings ==
    (store = "JsonStore" /\ ~HasSentinelString(value) /\ ~HasInvalidDate(value))
        => /\ cpc # "failed"
           /\ cpc = "read" => DeepEquals(decoded, value)

\* the nested example with an absent element and a Date has made the round trip
C1_Witness ==
    /\ store = "JsonStore" /\ cpc = "read"
    /\ value = NestedExample
    /\ decoded.v[1].v.v[2] = Undefined
    /\ decoded.v[1].v.v[3] = DateOf(0)

\* C2: the string-store codec returns every nested structure element-wise: same
\* keys, same lengths, every element equal to the original at its place, an
\* absent element absent again (not null, not dropped), a Date the same instant;
\* absent at the top level too.  (Values with strings that read as sentinels are
\* left out: they are C1's case.)
C2_ObjectParserRoundTrip ==
    (store \in {"ObjectStore", "ObjectStore/recursiveReplace"} /\ cpc = "read"
        /\ ~HasSentinelString(value))
        => DeepEquals(decoded, value)

\* the objectParser built on recursiveSerialize / recursiveParse alone does
\* round-trip those values
ObjectParserOnUtilsRoundTrip ==
    (store = "ObjectStore" /\ ~HasSentinelString(value) /\ ~HasInvalidDate(value))
        => /\ cpc # "failed"
           /\ cpc = "read" => DeepEquals(decoded, value)

(***************************************************************************)
(* JsonSearchStore: the constructor's schema and create options            *)
(***************************************************************************)
JSON == <<"J", "S", "O", "N">>
HASH == <<"H", "A", "S", "H">>

\* { ...v, AS: k }
withAS(props, k) ==
    IF \E i \in DOMAIN props : props[i].k = "AS"
    THEN [i \in DOMAIN props |-> IF props[i].k = "AS" THEN [k |-> "AS", v |-> Str(k)] ELSE props[i]]
    ELSE Append(props, [k |-> "AS", v |-> Str(k)])

\* Object.fromEntries: a repeated key keeps its first place and takes the last value
RECURSIVE fromEntries(_)
fromEntries(es) ==
    IF es = <<>> THEN <<>>
    ELSE LET init == fromEntries(SubSeq(es, 1, Len(es) - 1))
             e == es[Len(es)]
         IN IF \E i \in DOMAIN init : init[i].path = e.path
            THEN [i \in DOMAIN init |-> IF init[i].path = e.path THEN e ELSE init[i]]
            ELSE Append(init, e)

\* this.schema: options.schema keyed by path, each field carrying its alias as AS
thisSchema(sch) ==
    fromEntries([i \in DOMAIN sch |-> [path |-> sch[i].path, props |-> withAS(sch[i].props, sch[i].alias)]])

\* this.createOptions, as Object.entries lists it
createOptions(pfx) ==
    <<[k |-> "ON", v |-> Str(JSON)],
      [k |-> "PREFIX", v |-> IF pfx.t = "undefined" \/ (pfx.t = "string" /\ pfx.v = <<>>)
                             THEN Undefined
                             ELSE IF pfx.t = "array" THEN pfx ELSE Arr(<<pfx>>)]>>

(***************************************************************************)
(* The store's side of FT.CREATE and FT.INFO                               *)
(***************************************************************************)
propOf(props, name) ==
    IF \E i \in DOMAIN props : props[i].k = name
    THEN props[CHOOSE i \in DOMAIN props : props[i].k = name].v
    ELSE Undefined

\* an index created without PREFIX covers every key: FT.INFO lists the one prefix ""
DefaultPrefixes == Arr(<<Str(<<>>)>>)

Attribute(identifier, attribute, type, flags) ==
    [identifier |-> identifier, attribute |-> attribute, type |-> type, flags |-> flags]

Info(attributes, key_type, prefixes) ==
    [attributes |-> attributes, indexDefinition |-> [key_type |-> key_type, prefixes |-> prefixes]]

\* what FT.INFO reports of the index FT.CREATE(INDEX, sch, opts) makes
Created(sch, opts) ==
    Info([i \in DOMAIN sch |->
             Attribute(Str(sch[i].path), propOf(sch[i].props, "AS"), propOf(sch[i].props, "type"),
                       {sch[i].props[j].k : j \in {j \in DOMAIN sch[i].props :
                                                       sch[i].props[j].k \notin {"type", "AS"}}})],
         propOf(opts, "ON"),
         IF propOf(opts, "PREFIX").t = "undefined" THEN DefaultPrefixes ELSE propOf(opts, "PREFIX"))

(***************************************************************************)
(* JsonSearchStore.hasIndexChanged                                         *)
(***************************************************************************)
attrMappings ==
    <<[key |-> "type", infoKey |-> "type"],
      [key |-> "AS", infoKey |-> "attribute"]>>

\* value.every(v => defValue.includes(v))
everyIncluded(val, defValue) ==
    \A i \in DOMAIN val : \E j \in DOMAIN defValue : StrictEquals(val[i], defValue[j])

compareON(val, defValue) == StrictEquals(val, defValue)

comparePREFIX(val, defValue) ==
    LET arr == IF val.t = "array" THEN val.v ELSE <<val>>
    IN Len(arr) = Len(defValue.v) /\ everyIncluded(arr, defValue.v)

defMappings ==
    <<[key |-> "ON", infoKey |-> "key_type"],
      [key |-> "PREFIX", infoKey |-> "prefixes"]>>

\* defKey.compare(val, defValue)
compare(key, val, defValue) ==
    IF key = "ON" THEN compareON(val, defValue) ELSE comparePREFIX(val, defValue)

\* a loop body that neither returned nor threw
Continue == [t |-> "continue", v |-> <<>>]

\* what a loop returns or throws: its first body that does either
FirstDecided(s) ==
    IF \E i \in DOMAIN s : s[i].t # "continue"
    THEN s[CHOOSE i \in DOMAIN s : s[i].t # "continue" /\ \A j \in 1..(i - 1) : s[j].t = "continue"]
    ELSE Continue

\* new Map(attributes.map(a => [a.identifier, a])).get(identifier): the last one wins
attributeGet(attributes, identifier) ==
    LET hits == {i \in DOMAIN attributes : StrictEquals(attributes[i].identifier, Str(identifier))}
    IN IF hits = {} THEN <<>>
       ELSE <<attributes[CHOOSE i \in hits : \A j \in hits : j <= i]>>

propCheckSkipUnmapped(prop, attribute) ==
    IF \A m \in DOMAIN attrMappings : attrMappings[m].key # prop.k
    THEN Continue
    ELSE LET attrKey == attrMappings[CHOOSE m \in DOMAIN attrMappings : attrMappings[m].key = prop.k].infoKey
         IN IF ~StrictEquals(prop.v, attribute[attrKey]) THEN Bool(TRUE) ELSE Continue

propCheck(prop, attribute) ==
    IF \A m \in DOMAIN attrMappings : attrMappings[m].key # prop.k
    THEN Throw("Error: Index schema key not mapped")
    ELSE LET attrKey == attrMappings[CHOOSE m \in DOMAIN attrMappings : attrMappings[m].key = prop.k].infoKey
         IN IF ~StrictEquals(prop.v, attribute[attrKey]) THEN Bool(TRUE) ELSE Continue

fieldCheck(field, attributes) ==
    LET attribute == attributeGet(attributes, field.path)
    IN IF attribute = <<>> THEN Bool(TRUE)
       ELSE FirstDecided([i \in DOMAIN field.props |-> propCheck(field.props[i], attribute[1])])

definitionCheck(entry, definition) ==
    IF \A m \in DOMAIN defMappings : defMappings[m].key # entry.k
    THEN Throw("Error: Index definition key not mapped")
    ELSE LET defKey == defMappings[CHOOSE m \in DOMAIN defMappings : defMappings[m].key = entry.k]
         IN IF ~compare(defKey.key, entry.v, definition[defKey.infoKey]) THEN Bool(TRUE) ELSE Continue

hasIndexChangedFieldsOnly(sch, opts, rawInfo) ==
    IF Len(sch) # Cardinality({rawInfo.attributes[i].identifier : i \in DOMAIN rawInfo.attributes})
    THEN Bool(TRUE)
    ELSE LET fields == FirstDecided([i \in DOMAIN sch |-> fieldCheck(sch[i], rawInfo.attributes)])
         IN IF fields.t # "continue" THEN fields ELSE Bool(FALSE)

hasIndexChanged(sch, opts, rawInfo) ==
    IF Len(sch) # Cardinality({rawInfo.attributes[i].identifier : i \in DOMAIN rawInfo.attributes})
    THEN Bool(TRUE)
    ELSE LET fields == FirstDecided([i \in DOMAIN sch |-> fieldCheck(sch[i], rawInfo.attributes)])
         IN IF fields.t # "continue" THEN fields
            ELSE LET defs == FirstDecided([i \in DOMAIN opts |->
                                              definitionCheck(opts[i], rawInfo.indexDefinition)])
                 IN IF defs.t # "continue" THEN defs ELSE Bool(FALSE)

(***************************************************************************)
(* JsonSearchStore.init, one action for each stretch between its awaits    *)
(***************************************************************************)
\* init() is called and FT._LIST answers
InitList ==
    /\ ipc \in {"idle", "done", "crashed"}
    /\ inits < MaxInits
    /\ inits' = inits + 1
    /\ before' = index
    /\ commands' = <<Command("FT._LIST", <<>>)>>
    /\ changed' = None
    /\ result' = None
    /\ ipc' = IF index # <<>> THEN "info" ELSE "create"
    /\ UNCHANGED <<schema, prefix, index, crashLog, options, qpc, codecVars, kvVars>>

\* hasIndexChanged(): FT.INFO answers and the live index is compared with the declared one
InitInfo ==
    /\ ipc = "info"
    /\ commands' = Append(commands, Command("FT.INFO", <<>>))
    /\ changed' = hasIndexChanged(thisSchema(schema), createOptions(prefix), index[1])
    /\ ipc' = IF changed'.t = "boolean" /\ changed'.v THEN "drop" ELSE "done"
    /\ result' = IF changed'.t = "throw" THEN changed'
                 ELSE IF changed'.v THEN None ELSE Undefined
    /\ UNCHANGED <<schema, prefix, index, before, inits, crashLog, options, qpc, codecVars, kvVars>>

\* FT.DROPINDEX answers
InitDrop ==
    /\ ipc = "drop"
    /\ commands' = Append(commands, Command("FT.DROPINDEX", <<>>))
    /\ index' = <<>>
    /\ ipc' = "create"
    /\ UNCHANGED <<schema, prefix, changed, before, inits, crashLog, result, options, qpc, codecVars, kvVars>>

\* FT.CREATE answers and init() resolves
InitCreate ==
    /\ ipc = "create"
    /\ commands' = Append(commands, Command("FT.CREATE", <<thisSchema(schema), createOptions(prefix)>>))
    /\ index' = <<Created(thisSchema(schema), createOptions(prefix))>>
    /\ ipc' = "done"
    /\ result' = Undefined
    /\ UNCHANGED <<schema, prefix, changed, before, inits, crashLog, options, qpc, codecVars, kvVars>>

\* the process dies while init() is waiting; the store keeps what it has
InitCrash ==
    /\ ipc \in {"info", "drop", "create"}
    /\ ipc' = "crashed"
    /\ crashLog' = commands
    /\ UNCHANGED <<schema, prefix, index, changed, before, inits, commands, result, options, qpc, codecVars, kvVars>>

(***************************************************************************)
(* Stores, and live indexes for them to meet                               *)
(***************************************************************************)
PrefixP == Str(<<"p">>)
PrefixQ == Str(<<"q">>)

IndexSchemas ==
    {<<Field(FieldS, PathS, <<Type(TEXT)>>), Field(FieldT, PathT, <<Type(TAG)>>)>>,
     <<Field(FieldT, PathT, <<Type(TAG)>>), Field(FieldS, PathS, <<Type(TEXT)>>)>>,
     <<Field(FieldS, PathS, <<Type(TEXT)>>), Field(FieldT, PathT, <<Type(TEXT)>>)>>,
     <<Field(FieldS, PathS, <<Type(TEXT)>>), Field(FieldU, PathT, <<Type(TAG)>>)>>,
     <<Field(FieldS, PathS, <<Type(TEXT)>>)>>,
     <<Field(FieldS, PathS, <<Type(TEXT), [k |-> "SORTABLE", v |-> Bool(TRUE)]>>),
       Field(FieldT, PathT, <<Type(TAG)>>)>>,
     <<Field(FieldT, PathT, <<Type(TAG)>>),
       Field(FieldS, PathS, <<Type(TEXT), [k |-> "SORTABLE", v |-> Bool(TRUE)]>>)>>}

Prefixes ==
    {Undefined, PrefixP, Arr(<<PrefixP>>), Arr(<<PrefixQ>>),
     Arr(<<PrefixP, PrefixQ>>), Arr(<<PrefixQ, PrefixP>>)}

\* no index, an index some store of this class created, or one another tool made over hashes
LiveIndexes ==
    {<<>>}
    \cup {<<Created(thisSchema(s), createOptions(p))>> : s \in IndexSchemas, p \in Prefixes}
    \cup {<<Info(Created(thisSchema(s), createOptions(p)).attributes, Str(HASH),
                 Created(thisSchema(s), createOptions(p)).indexDefinition.prefixes)>> :
             s \in IndexSchemas, p \in {Undefined, PrefixP}}

InitIndex ==
    /\ IdleCodec /\ IdleKv
    /\ schema \in IndexSchemas
    /\ prefix \in Prefixes
    /\ index \in LiveIndexes
    /\ options = <<>> /\ commands = <<>> /\ result = None /\ qpc = "idle"
    /\ ipc = "idle" /\ changed = None /\ before = <<>> /\ inits = 0 /\ crashLog = <<>>

NextIndex == InitList \/ InitInfo \/ InitDrop \/ InitCreate \/ InitCrash

SpecIndex == InitIndex /\ [][NextIndex]_vars

(***************************************************************************)
(* Properties of the differ and of init                                    *)
(***************************************************************************)
Declared == thisSchema(schema)
DeclaredOptions == createOptions(prefix)

\* the names of the commands sent, in order
Names(cs) == [i \in DOMAIN cs |-> cs[i].cmd]

\* hasIndexChanged has answered in this init(); the index it read is the one init() began with
DifferAnswered == changed.t # "none"

OnlyMappedProps(sch) ==
    \A i \in DOMAIN sch : \A j \in DOMAIN sch[i].props : sch[i].props[j].k \in {"type", "AS"}

SameStrings(a, b) ==
    /\ \A i \in DOMAIN a : \E j \in DOMAIN b : StrictEquals(a[i], b[j])
    /\ \A j \in DOMAIN b : \E i \in DOMAIN a : StrictEquals(a[i], b[j])

\* the prefix list a store declares; a store without a prefix declares the store's default
DeclaredPrefixes ==
    IF propOf(DeclaredOptions, "PREFIX").t = "undefined" THEN DefaultPrefixes.v
    ELSE propOf(DeclaredOptions, "PREFIX").v

FieldMatches(field, a) ==
    /\ StrictEquals(a.identifier, Str(field.path))
    /\ StrictEquals(a.type, propOf(field.props, "type"))
    /\ StrictEquals(a.attribute, propOf(field.props, "AS"))

FieldsMatch(sch, live) ==
    /\ Len(sch) = Len(live.attributes)
    /\ \A i \in DOMAIN sch : \E j \in DOMAIN live.attributes : FieldMatches(sch[i], live.attributes[j])

\* what a schema says of a field: its path, its alias and its type
Declares(a) == <<a.identifier.v, a.attribute.v, a.type.v>>

\* two indexes hold the same fields, by path, alias and type, over the same keys
SameIndex(a, b) ==
    /\ {Declares(a.attributes[i]) : i \in DOMAIN a.attributes}
           = {Declares(b.attributes[i]) : i \in DOMAIN b.attributes}
    /\ Len(a.attributes) = Len(b.attributes)
    /\ StrictEquals(a.indexDefinition.key_type, b.indexDefinition.key_type)
    /\ SameStrings(a.indexDefinition.prefixes.v, b.indexDefinition.prefixes.v)

\* C7: hasIndexChanged returns true when the number of declared fields differs from the
\* number of live attributes, when a declared path is missing from the live index, or when
\* a declared field's type or alias differs from the live attribute's; it returns false
\* when the live index is exactly the one the declared schema and options create.
C7_DifferOnFields ==
    (DifferAnswered /\ OnlyMappedProps(Declared)) =>
        LET live == before[1]
        IN /\ Len(Declared) # Len(live.attributes) => StrictEquals(changed, Bool(TRUE))
           /\ (\E i \in DOMAIN Declared : attributeGet(live.attributes, Declared[i].path) = <<>>)
                  => StrictEquals(changed, Bool(TRUE))
           /\ (\E i \in DOMAIN Declared : \E j \in DOMAIN live.attributes :
                   /\ StrictEquals(live.attributes[j].identifier, Str(Declared[i].path))
                   /\ ~FieldMatches(Declared[i], live.attributes[j]))
                  => StrictEquals(changed, Bool(TRUE))
           /\ live = Created(Declared, DeclaredOptions) => StrictEquals(changed, Bool(FALSE))

\* The same four cases hold of every store that declares a prefix.
DifferOnFieldsWithPrefix ==
    prefix.t # "undefined" => C7_DifferOnFields

\* C8: with the fields matching, hasIndexChanged reports 'unchanged' exactly when the
\* declared and live prefix lists hold the same prefixes in any order and ON equals the
\* live key type, a store constructed without a prefix included.
C8_DifferOnOptions ==
    (DifferAnswered /\ OnlyMappedProps(Declared) /\ FieldsMatch(Declared, before[1])) =>
        LET def == before[1].indexDefinition
        IN StrictEquals(changed, Bool(FALSE))
               <=> /\ SameStrings(DeclaredPrefixes, def.prefixes.v)
                   /\ StrictEquals(propOf(DeclaredOptions, "ON"), def.key_type)

\* The same equivalence holds of every store that declares a prefix.
DifferOnOptionsWithPrefix ==
    prefix.t # "undefined" => C8_DifferOnOptions

\* C9: an init() that completes without error leaves the index present with the declared
\* schema and options: an absent index is created without a drop (also when it is absent
\* because an earlier init() died between its drop and its create), a changed index is
\* dropped and then created, and an unchanged index is left as it was.
C9_InitReconciles ==
    (ipc = "done" /\ result.t = "undefined") =>
        /\ index # <<>>
        /\ SameIndex(index[1], Created(Declared, DeclaredOptions))
        /\ before = <<>> => Names(commands) = <<"FT._LIST", "FT.CREATE">>
        /\ (before # <<>> /\ StrictEquals(changed, Bool(TRUE)))
               => /\ Names(commands) = <<"FT._LIST", "FT.INFO", "FT.DROPINDEX", "FT.CREATE">>
                  /\ commands[4].args = <<Declared, DeclaredOptions>>
        /\ (before # <<>> /\ StrictEquals(changed, Bool(FALSE)))
               => /\ Names(commands) = <<"FT._LIST", "FT.INFO">>
                  /\ index = before

\* an init() died after its drop, and the next init() has created the index without a drop
C9_Witness ==
    /\ ipc = "done" /\ result.t = "undefined"
    /\ crashLog # <<>> /\ crashLog[Len(crashLog)].cmd = "FT.DROPINDEX"
    /\ inits = 2 /\ before = <<>>
    /\ Names(commands) = <<"FT._LIST", "FT.CREATE">>
    /\ index = <<Created(Declared, DeclaredOptions)>>

\* a changed index has been dropped and created again
InitRecreatesWitness ==
    /\ ipc = "done" /\ result.t = "undefined"
    /\ before # <<>> /\ ~SameIndex(before[1], index[1])
    /\ Names(commands) = <<"FT._LIST", "FT.INFO", "FT.DROPINDEX", "FT.CREATE">>

\* an unchanged index has been reused by a second init()
InitReusesWitness ==
    /\ ipc = "done" /\ result.t = "undefined" /\ inits = 2
    /\ Names(commands) = <<"FT._LIST", "FT.INFO">>

\* C10: an init() that finds the live index to be exactly the one its declared schema and
\* options create, as a second init() right after a successful one does, with or without
\* a declared prefix, issues neither a drop nor a create and leaves the index as it was.
C10_UnchangedIndexIsReused ==
    (ipc = "done" /\ before = <<Created(Declared, DeclaredOptions)>>) =>
        /\ \A i \in DOMAIN commands : commands[i].cmd \notin {"FT.DROPINDEX", "FT.CREATE"}
        /\ index = before

\* A store that declares a prefix reuses its index.
UnchangedIndexIsReusedWithPrefix ==
    prefix.t # "undefined" => C10_UnchangedIndexIsReused

IsMapped(k) == \E m \in DOMAIN attrMappings : attrMappings[m].key = k

\* the property loop of a field runs to its end without a return or a throw
FieldPasses(field, live) ==
    /\ attributeGet(live.attributes, field.path) # <<>>
    /\ \A j \in DOMAIN field.props :
           /\ IsMapped(field.props[j].k)
           /\ propCheck(field.props[j], attributeGet(live.attributes, field.path)[1]).t = "continue"

\* the comparison comes upon a property without a mapping: the field counts agree, every
\* field before it passes, its own field is in the live index and the properties before it
\* in that field are mapped and equal to the live ones
UnmappedEncountered(sch, live) ==
    /\ Len(sch) = Len(live.attributes)
    /\ \E i \in DOMAIN sch : \E j \in DOMAIN sch[i].props :
           /\ ~IsMapped(sch[i].props[j].k)
           /\ \A h \in 1..(i - 1) : FieldPasses(sch[h], live)
           /\ attributeGet(live.attributes, sch[i].path) # <<>>
           /\ \A h \in 1..(j - 1) :
                  /\ IsMapped(sch[i].props[h].k)
                  /\ propCheck(sch[i].props[h], attributeGet(live.attributes, sch[i].path)[1]).t = "continue"

\* C11 as stated: every declared field property without a mapping makes hasIndexChanged
\* fail with a configuration error.
C11_AnyUnmappedPropertyFails ==
    (DifferAnswered /\ ~OnlyMappedProps(Declared)) => changed.t = "throw"

\* C11: hasIndexChanged fails with a configuration error exactly when its comparison comes
\* upon a declared field property without a mapping (it returns 'changed' instead when the
\* field counts differ or an earlier compared field or property differs); on that failure
\* init() fails with the same error, has issued no drop and no create, and the live index
\* is as it was.
C11_UnmappedPropertyEncounteredFails ==
    DifferAnswered =>
        /\ changed.t = "throw" <=> UnmappedEncountered(Declared, before[1])
        /\ changed.t = "throw" =>
               /\ changed.v = "Error: Index schema key not mapped"
               /\ ipc \in {"done", "crashed"}
               /\ ipc = "done" => (result.t = "throw" /\ result.v = changed.v)
               /\ Names(commands) = <<"FT._LIST", "FT.INFO">>
               /\ index = before

\* init() has failed on a SORTABLE property declared on the second field of the schema
C11_Witness ==
    /\ ipc = "done" /\ result.t = "throw"
    /\ ~IsMapped(Declared[2].props[2].k)
    /\ index = before /\ before # <<>>
    /\ Names(commands) = <<"FT._LIST", "FT.INFO">>

(***************************************************************************)
(* numberParser: Number.prototype.toString and parseInt                    *)
(*                                                                         *)
(* A finite number is m * 10^e with m not a multiple of 10 (0 is m = 0,    *)
(* e = 0), so that 1.5, 120 and 1e21 are told apart without large integers.*)
(***************************************************************************)
Finite(m, e) == [t |-> "number", k |-> "finite", v |-> <<m, e>>]
NaN == [t |-> "number", k |-> "NaN", v |-> <<0, 0>>]
PlusInfinity == [t |-> "number", k |-> "Infinity", v |-> <<1, 0>>]
MinusInfinity == [t |-> "number", k |-> "Infinity", v |-> <<0 - 1, 0>>]
MinusZero == [t |-> "number", k |-> "-0", v |-> <<0, 0>>]

\* n === m on numbers: NaN equals nothing, -0 equals 0
SameNumber(a, b) ==
    /\ a.t = "number" /\ b.t = "number"
    /\ a.k # "NaN" /\ b.k # "NaN"
    /\ \/ a.k = b.k /\ a.v = b.v
       \/ a.v = <<0, 0>> /\ b.v = <<0, 0>>

Zeros(n) == [i \in 1..n |-> "0"]

\* Number.prototype.toString (radix 10) of m * 10^e, m > 0
PositiveToString(m, e) ==
    LET ds == NatChars(m)
        k == Len(ds)
        n == k + e
        exp == IF n - 1 < 0 THEN <<"e", "-">> \o NatChars(1 - n) ELSE <<"e", "+">> \o NatChars(n - 1)
    IN IF k <= n /\ n <= 21 THEN ds \o Zeros(n - k)
       ELSE IF 0 < n /\ n <= 21 THEN SubSeq(ds, 1, n) \o <<".">> \o SubSeq(ds, n + 1, k)
       ELSE IF 0 - 6 < n /\ n <= 0 THEN <<"0", ".">> \o Zeros(0 - n) \o ds
       ELSE IF k = 1 THEN ds \o exp
       ELSE <<ds[1], ".">> \o SubSeq(ds, 2, k) \o exp

\* value.toString()
toString(num) ==
    IF num.k = "NaN" THEN <<"N", "a", "N">>
    ELSE IF num.k = "Infinity"
         THEN (IF num.v[1] < 0 THEN <<"-">> ELSE <<>>) \o <<"I", "n", "f", "i", "n", "i", "t", "y">>
    ELSE IF num.v[1] = 0 THEN <<"0">>
    ELSE IF num.v[1] < 0 THEN <<"-">> \o PositiveToString(0 - num.v[1], num.v[2])
    ELSE PositiveToString(num.v[1], num.v[2])

HexDigits == <<"0", "1", "2", "3", "4", "5", "6", "7", "8", "9", "a", "b", "c", "d", "e", "f">>
UpperHexDigits == <<"0", "1", "2", "3", "4", "5", "6", "7", "8", "9", "A", "B", "C", "D", "E", "F">>
IsHexDigit(c) == \E d \in 1..16 : HexDigits[d] = c \/ UpperHexDigits[d] = c
HexVal(c) == (CHOOSE d \in 1..16 : HexDigits[d] = c \/ UpperHexDigits[d] = c) - 1

RECURSIVE HexDigitsVal(_)
HexDigitsVal(s) ==
    IF s = <<>> THEN 0 ELSE 16 * HexDigitsVal(SubSeq(s, 1, Len(s) - 1)) + HexVal(s[Len(s)])

\* the longest prefix of s made of digits of the radix
RECURSIVE DigitPrefix(_, _)
DigitPrefix(s, radix) ==
    IF s # <<>> /\ (IF radix = 16 THEN IsHexDigit(Head(s)) ELSE IsDigit(Head(s)))
    THEN <<Head(s)>> \o DigitPrefix(Tail(s), radix)
    ELSE <<>>

RECURSIVE StripLeadingZeros(_)
StripLeadingZeros(s) == IF s # <<>> /\ Head(s) = "0" THEN StripLeadingZeros(Tail(s)) ELSE s

RECURSIVE TrailingZeros(_)
TrailingZeros(s) ==
    IF s # <<>> /\ s[Len(s)] = "0" THEN 1 + TrailingZeros(SubSeq(s, 1, Len(s) - 1)) ELSE 0

\* the number a run of decimal digits denotes, with the sign given
DecimalNumber(ds, negative) ==
    LET sig == StripLeadingZeros(ds)
        z == TrailingZeros(sig)
        m == DigitsVal(SubSeq(sig, 1, Len(sig) - z))
    IN IF sig = <<>> THEN (IF negative THEN MinusZero ELSE Finite(0, 0))
       ELSE Finite(IF negative THEN 0 - m ELSE m, z)

\* parseInt(string): leading white space, a sign, 0x for radix 16, then the digits
\* there are; what follows the digits is ignored; no digit gives NaN
parseInt(string) ==
    LET s0 == trimStart(string)
        negative == s0 # <<>> /\ Head(s0) = "-"
        s1 == IF s0 # <<>> /\ Head(s0) \in {"+", "-"} THEN Tail(s0) ELSE s0
        hex == Len(s1) >= 2 /\ s1[1] = "0" /\ s1[2] \in {"x", "X"}
        s2 == IF hex THEN SubSeq(s1, 3, Len(s1)) ELSE s1
        z == DigitPrefix(s2, IF hex THEN 16 ELSE 10)
    IN IF z = <<>> THEN NaN
       ELSE IF hex THEN DecimalNumber(NatChars(HexDigitsVal(z)), negative)
       ELSE DecimalNumber(z, negative)

isNaN(num) == num.k = "NaN"

numberParserSerialize(val) == Str(toString(val))

numberParserDeserialize(text) ==
    LET num == parseInt(text)
    IN IF isNaN(num) THEN Throw("Error: Invalid number") ELSE num

(***************************************************************************)
(* A NumberStore key: set, get, getOrThrow and mGet through numberParser   *)
(***************************************************************************)
Mantissas == {m \in (0 - MaxMantissa)..MaxMantissa : m # 0 /\ m % 10 # 0}
Exponents == {0 - 7, 0 - 6, 0 - 2, 0 - 1, 0, 1, 2, 20, 21}

Numbers ==
    {Finite(m, e) : m \in Mantissas, e \in Exponents}
    \cup {Finite(0, 0), MinusZero, NaN, PlusInfinity, MinusInfinity}

\* strings another writer may have left under the key
RawStrings ==
    Strings({"0", "1", "a", "x", "-", ".", " "}, MaxRawLen)
    \cup {<<"a", "b", "c">>, <<"1", "2", "a", "b", "c">>, <<"1", "e", "+", "2", "1">>,
          <<"I", "n", "f", "i", "n", "i", "t", "y">>, <<"N", "a", "N">>}

InitNumber ==
    /\ IdleKv /\ IdleQuery /\ IdleIndex
    /\ store = "NumberStore"
    /\ \/ value \in Numbers /\ encoded = None
       \/ value = None /\ encoded \in {Str(r) : r \in RawStrings}
    /\ decoded = None
    /\ cpc = "input"

\* BaseStringStore.set with numberParser
NumberStoreSet ==
    /\ store = "NumberStore" /\ cpc = "input" /\ value.t = "number"
    /\ encoded' = numberParserSerialize(value)
    /\ cpc' = "stored"
    /\ UNCHANGED <<store, value, decoded, queryVars, indexVars, kvVars>>

\* BaseStringStore.get with numberParser
NumberStoreGet ==
    /\ store = "NumberStore" /\ cpc \in {"input", "stored"}
    /\ decoded' = IF encoded.t = "none" THEN Null ELSE numberParserDeserialize(encoded.v)
    /\ cpc' = "get"
    /\ UNCHANGED <<store, value, encoded, queryVars, indexVars, kvVars>>

\* BaseStringStore.getOrThrow with numberParser
NumberStoreGetOrThrow ==
    /\ store = "NumberStore" /\ cpc \in {"input", "stored"}
    /\ decoded' = IF encoded.t = "none" THEN Throw("Error: Not found")
                  ELSE numberParserDeserialize(encoded.v)
    /\ cpc' = "getOrThrow"
    /\ UNCHANGED <<store, value, encoded, queryVars, indexVars, kvVars>>

\* BaseStringStore.mGet with numberParser, of this key and of a key that is not there
NumberStoreMGet ==
    /\ store = "NumberStore" /\ cpc \in {"input", "stored"}
    /\ LET each == <<IF encoded.t = "none" THEN Null ELSE numberParserDeserialize(encoded.v), Null>>
       IN decoded' = IF AnyThrown(each) THEN FirstThrown(each) ELSE Arr(each)
    /\ cpc' = "mGet"
    /\ UNCHANGED <<store, value, encoded, queryVars, indexVars, kvVars>>

NextNumber == NumberStoreSet \/ NumberStoreGet \/ NumberStoreGetOrThrow \/ NumberStoreMGet

SpecNumber == InitNumber /\ [][NextNumber]_vars

(***************************************************************************)
(* Properties of numberParser                                              *)
(***************************************************************************)
AllDigits(s) == \A i \in DOMAIN s : IsDigit(s[i])

\* digits, with or without a fraction
IsMantissa(u) ==
    \E d \in 0..Len(u) :
        LET int == SubSeq(u, 1, d)
            rest == SubSeq(u, d + 1, Len(u))
        IN /\ AllDigits(int)
           /\ \/ rest = <<>> /\ int # <<>>
              \/ /\ rest # <<>> /\ Head(rest) = "."
                 /\ AllDigits(Tail(rest))
                 /\ (int # <<>> \/ Tail(rest) # <<>>)

IsExponent(x) ==
    /\ x # <<>> /\ Head(x) \in {"e", "E"}
    /\ LET y == Tail(x)
           z == IF y # <<>> /\ Head(y) \in {"+", "-"} THEN Tail(y) ELSE y
       IN z # <<>> /\ AllDigits(z)

\* the whole string is a numeral of a finite number: a decimal numeral with an optional
\* sign, fraction and exponent, or a hexadecimal one, white space around it allowed
DenotesFiniteNumber(s) ==
    LET w == trim(s)
        u == IF w # <<>> /\ Head(w) \in {"+", "-"} THEN Tail(w) ELSE w
    IN \/ w = <<>>
       \/ Len(w) >= 3 /\ w[1] = "0" /\ w[2] \in {"x", "X"}
              /\ \A i \in 3..Len(w) : IsHexDigit(w[i])
       \/ \E p \in 0..Len(u) :
              /\ IsMantissa(SubSeq(u, 1, p))
              /\ (p = Len(u) \/ IsExponent(SubSeq(u, p + 1, Len(u))))

IsInteger(num) == num.k \in {"finite", "-0"} /\ num.v[2] >= 0

\* C12: every number written through a NumberStore is read back equal.
C12_NumberRoundTrip ==
    (store = "NumberStore" /\ cpc \in {"get", "getOrThrow"} /\ value.t = "number" /\ encoded.t = "string")
        => SameNumber(decoded, value)

\* Integers below 10^21 in magnitude are written in plain digits and read back equal.
IntegerRoundTrip ==
    (store = "NumberStore" /\ cpc \in {"get", "getOrThrow"} /\ value.t = "number" /\ encoded.t = "string"
        /\ IsInteger(value) /\ Len(NatChars(IF value.v[1] < 0 THEN 0 - value.v[1] ELSE value.v[1])) + value.v[2] <= 21)
        => SameNumber(decoded, value)

\* C13: reading a stored string that is not the numeral of a finite number fails, for
\* get, getOrThrow and mGet alike.
C13_NonNumericStringFails ==
    (store = "NumberStore" /\ cpc \in {"get", "getOrThrow", "mGet"} /\ encoded.t = "string"
        /\ ~DenotesFiniteNumber(encoded.v))
        => Thrown(decoded)

\* The read fails exactly when the stored string has no digit after its leading white
\* space and sign, and the error reaches the caller of get, getOrThrow and mGet.
NoLeadingDigitFails ==
    (store = "NumberStore" /\ cpc \in {"get", "getOrThrow", "mGet"} /\ encoded.t = "string")
        => (Thrown(decoded) <=> isNaN(parseInt(encoded.v)))

(***************************************************************************)
(* BaseStore: keys                                                         *)
(***************************************************************************)
\* this.SEPARATOR = options.separator || ':'
SEPARATOR(o) == IF o.separator.t = "string" /\ o.separator.v # <<>> THEN o.separator.v ELSE <<":">>

\* this.PREFIX = `${options.prefix}${this.SEPARATOR}`
PREFIX(o) == o.prefix \o SEPARATOR(o)

\* DEFAULT_KEYGEN.serialize
serializeKey(id) ==
    IF id.t = "string" THEN id ELSE Throw("Error: Could not serialize Redis ID")

\* DEFAULT_KEYGEN.parse
parseKey(key) == key

prefixKey(o, key) == IF startsWith(key, PREFIX(o)) THEN key ELSE PREFIX(o) \o key

unPrefixKey(o, key) == IF startsWith(key, PREFIX(o)) THEN slice(key, Len(PREFIX(o))) ELSE key

toKey(o, id) ==
    LET key == serializeKey(id)
    IN IF Thrown(key) THEN key ELSE Str(prefixKey(o, key.v))

toId(o, key) == parseKey(unPrefixKey(o, key))

(***************************************************************************)
(* The database's side of KEYS, SET, MSET and DEL                          *)
(***************************************************************************)
\* glob matching of KEYS: * is any run of characters, ? any one character
RECURSIVE Glob(_, _)
Glob(pattern, key) ==
    IF pattern = <<>> THEN key = <<>>
    ELSE IF Head(pattern) = "*"
         THEN Glob(Tail(pattern), key) \/ (key # <<>> /\ Glob(pattern, Tail(key)))
    ELSE IF Head(pattern) = "?" THEN key # <<>> /\ Glob(Tail(pattern), Tail(key))
    ELSE key # <<>> /\ Head(key) = Head(pattern) /\ Glob(Tail(pattern), Tail(key))

RedisKeys(d, pattern) == {r.key : r \in {r \in d : Glob(pattern, r.key)}}

Exists(d, key) == \E r \in d : r.key = key
Entry(d, key) == CHOOSE r \in d : r.key = key
NoExpiry == 0

\* the options of SET the model knows: EX (0 when not given), KEEPTTL, NX
SetOptions(ex, keepttl, nx) == [EX |-> ex, KEEPTTL |-> keepttl, NX |-> nx]
EmptyOptions == SetOptions(0, FALSE, FALSE)

\* SET key val [EX s | KEEPTTL] [NX]: EX comes first among the expiry options
RedisSet(d, key, val, o) ==
    IF o.NX /\ Exists(d, key) THEN d
    ELSE LET ex == IF o.EX # 0 THEN o.EX
                   ELSE IF o.KEEPTTL /\ Exists(d, key) THEN Entry(d, key).ex
                   ELSE NoExpiry
         IN {r \in d : r.key # key} \cup {[key |-> key, val |-> val, ex |-> ex]}

\* MSET: each pair in turn, without expiry
RECURSIVE RedisMSet(_, _)
RedisMSet(d, pairs) ==
    IF pairs = <<>> THEN d
    ELSE RedisMSet(RedisSet(d, pairs[1][1], pairs[1][2], EmptyOptions), Tail(pairs))

RedisDel(d, keys) == {r \in d : r.key \notin keys}

(***************************************************************************)
(* BaseStringStore with stringParser: set, mSet, reload                    *)
(***************************************************************************)
stringParserSerialize(val) == val

\* the options set() hands to the client
setOptions(o, opts) ==
    LET given == IF opts = <<>> THEN EmptyOptions ELSE opts[1]
    IN IF o.ttl # 0 THEN [given EXCEPT !.EX = o.ttl] ELSE given

\* the pairs mSet() hands to the client, or what the mapping threw
mapped(o, kvs) ==
    LET keys == [i \in DOMAIN kvs |-> toKey(o, kvs[i][1])]
    IN IF AnyThrown(keys) THEN FirstThrown(keys)
       ELSE Arr([i \in DOMAIN kvs |-> <<keys[i].v, stringParserSerialize(kvs[i][2])>>])

Called(op, id, val, opts, kvs, outcome) ==
    [op |-> op, id |-> id, val |-> val, options |-> opts, kvs |-> kvs, outcome |-> outcome]

Set(id, val, opts) ==
    LET key == toKey(kopts, id)
        so == setOptions(kopts, opts)
        done == RedisSet(db, key.v, stringParserSerialize(val), so)
    IN /\ calls < MaxCalls
       /\ calls' = calls + 1
       /\ dbBefore' = db
       /\ IF Thrown(key)
          THEN /\ call' = Called("set", id, val, opts, <<>>, key)
               /\ sent' = <<>>
               /\ UNCHANGED <<db, written>>
          ELSE /\ sent' = <<Command("SET", <<key.v, stringParserSerialize(val), so>>)>>
               /\ db' = done
               /\ call' = Called("set", id, val, opts, <<>>,
                                 IF so.NX /\ Exists(db, key.v) THEN Null ELSE Str(<<"O", "K">>))
               /\ written' = IF so.NX /\ Exists(db, key.v) THEN written ELSE written \cup {key.v}
       /\ UNCHANGED <<kopts, codecVars, queryVars, indexVars>>

MSet(kvs) ==
    LET pairs == mapped(kopts, kvs)
    IN /\ calls < MaxCalls
       /\ calls' = calls + 1
       /\ dbBefore' = db
       /\ IF Thrown(pairs)
          THEN /\ call' = Called("mSet", Undefined, <<>>, <<>>, kvs, pairs)
               /\ sent' = <<>>
               /\ UNCHANGED <<db, written>>
          ELSE /\ sent' = <<Command("MSET", pairs.v)>>
               /\ IF pairs.v = <<>>
                  THEN /\ call' = Called("mSet", Undefined, <<>>, <<>>, kvs, Throw("ErrorReply"))
                       /\ UNCHANGED <<db, written>>
                  ELSE /\ call' = Called("mSet", Undefined, <<>>, <<>>, kvs, Str(<<"O", "K">>))
                       /\ db' = RedisMSet(db, pairs.v)
                       /\ written' = written \cup {pairs.v[i][1] : i \in DOMAIN pairs.v}
       /\ UNCHANGED <<kopts, codecVars, queryVars, indexVars>>

Reload(kvs) ==
    LET keys == [i \in DOMAIN kvs |-> toKey(kopts, kvs[i][1])]
        pattern == prefixKey(kopts, <<"*">>)
        oKeys == RedisKeys(db, pattern)
        pairs == mapped(kopts, kvs)
        afterSet == IF kvs # <<>> THEN RedisMSet(db, pairs.v) ELSE db
        toRemove == {o \in oKeys : \A i \in DOMAIN keys : keys[i].v # o}
    IN /\ calls < MaxCalls
       /\ calls' = calls + 1
       /\ dbBefore' = db
       /\ IF AnyThrown(keys)
          THEN /\ call' = Called("reload", Undefined, <<>>, <<>>, kvs, FirstThrown(keys))
               /\ sent' = <<>>
               /\ UNCHANGED <<db, written>>
          ELSE /\ call' = Called("reload", Undefined, <<>>, <<>>, kvs, Undefined)
               /\ sent' = <<Command("KEYS", <<pattern>>)>>
                          \o (IF kvs # <<>> THEN <<Command("MSET", pairs.v)>> ELSE <<>>)
                          \o (IF toRemove # {} THEN <<Command("DEL", <<toRemove>>)>> ELSE <<>>)
               /\ db' = RedisDel(afterSet, toRemove)
               /\ written' = (written \cup {keys[i].v : i \in DOMAIN keys}) \ toRemove
       /\ UNCHANGED <<kopts, codecVars, queryVars, indexVars>>

(***************************************************************************)
(* Stores, databases and calls                                             *)
(***************************************************************************)
KvOptions ==
    {[prefix |-> x, separator |-> Undefined, ttl |-> t] : x \in {<<"p">>, <<"p", "*">>}, t \in {0, 5}}

KeyPA == <<"p", ":", "a">>
KeyPB == <<"p", ":", "b">>
KeyQA == <<"q", ":", "a">>
KeyPQA == <<"p", "q", ":", "a">>
KeyPStarA == <<"p", "*", ":", "a">>
KeyPStarB == <<"p", "*", ":", "b">>
ValU == <<"u">>
ValV == <<"v">>

\* what earlier runs and other programs have left in the database
Databases ==
    {{},
     {[key |-> KeyPA, val |-> ValU, ex |-> NoExpiry], [key |-> KeyQA, val |-> ValU, ex |-> NoExpiry],
      [key |-> KeyPQA, val |-> ValU, ex |-> NoExpiry], [key |-> KeyPStarA, val |-> ValU, ex |-> NoExpiry]},
     {[key |-> KeyPA, val |-> ValU, ex |-> 9], [key |-> KeyPB, val |-> ValV, ex |-> NoExpiry],
      [key |-> KeyPStarB, val |-> ValV, ex |-> 9]}}

IdA == Str(<<"a">>)
IdB == Str(<<"b">>)
KvIds == {IdA, IdB, Str(KeyPA), Str(KeyPStarA), Num(1)}

SetCalls ==
    {<<IdA, ValU, <<>>>>,
     <<IdA, ValV, <<EmptyOptions>>>>,
     <<IdB, ValU, <<SetOptions(7, FALSE, FALSE)>>>>,
     <<IdA, ValU, <<SetOptions(0, FALSE, TRUE)>>>>,
     <<Str(KeyPA), ValV, <<SetOptions(0, TRUE, FALSE)>>>>,
     <<Str(KeyPStarA), ValU, <<>>>>,
     <<Num(1), ValU, <<>>>>}

KvLists ==
    {<<>>,
     <<<<IdA, ValU>>>>,
     <<<<IdB, ValV>>>>,
     <<<<IdA, ValU>>, <<IdB, ValV>>>>,
     <<<<IdA, ValU>>, <<IdA, ValV>>>>,
     <<<<Str(KeyPA), ValV>>>>,
     <<<<Str(KeyPStarA), ValV>>, <<IdB, ValU>>>>,
     <<<<IdA, ValU>>, <<Num(1), ValV>>>>}

InitKv ==
    /\ IdleCodec /\ IdleQuery /\ IdleIndex
    /\ kopts \in KvOptions
    /\ db \in Databases
    /\ dbBefore = db
    /\ call = NoCall
    /\ sent = <<>>
    /\ written = {}
    /\ calls = 0

KvSet == \E c \in SetCalls : Set(c[1], c[2], c[3])
KvMSet == \E kvs \in KvLists : MSet(kvs)
KvReload == \E kvs \in KvLists : Reload(kvs)

NextKv == KvSet \/ KvMSet \/ KvReload

SpecKv == InitKv /\ [][NextKv]_vars

(***************************************************************************)
(* Properties of the keys and of the writes                                *)
(***************************************************************************)
UnderPrefix(d) == {r \in d : startsWith(r.key, PREFIX(kopts))}
OutsidePrefix(d) == {r \in d : ~startsWith(r.key, PREFIX(kopts))}
StringIds == {id \in KvIds : id.t = "string"}

\* C14: after a reload that completed, the keys under the store's prefix are exactly the
\* keys of the pairs given, each holds a value given for it, and what is outside the
\* store's prefix is as it was.
C14_ReloadReplacesContent ==
    (call.op = "reload" /\ call.outcome.t = "undefined") =>
        LET keys == {toKey(kopts, call.kvs[i][1]).v : i \in DOMAIN call.kvs}
        IN /\ {r.key : r \in UnderPrefix(db)} = keys
           /\ \A r \in UnderPrefix(db) :
                  \E i \in DOMAIN call.kvs :
                      /\ toKey(kopts, call.kvs[i][1]).v = r.key
                      /\ stringParserSerialize(call.kvs[i][2]) = r.val
           /\ OutsidePrefix(db) = OutsidePrefix(dbBefore)

\* The same holds of every store whose prefix has no character that KEYS reads as a
\* pattern.
ReloadWithPlainPrefix ==
    (\A i \in DOMAIN PREFIX(kopts) : PREFIX(kopts)[i] \notin {"*", "?", "[", "\\"})
        => C14_ReloadReplacesContent

\* C15: for the string ID of a set(), toId(toKey(id)) is id, toKey(id) starts with PREFIX,
\* no other ID has the same key, and prefixKey is idempotent.
C15_KeyTranslationRoundTrip ==
    (call.op = "set" /\ call.id.t = "string") =>
        LET id == call.id
            key == toKey(kopts, id).v
        IN /\ toId(kopts, key) = id.v
           /\ startsWith(key, PREFIX(kopts))
           /\ \A other \in StringIds : other.v # id.v => toKey(kopts, other).v # key
           /\ prefixKey(kopts, prefixKey(kopts, id.v)) = prefixKey(kopts, id.v)

\* For IDs that do not themselves start with PREFIX the translation is a round trip and
\* is one-to-one; toKey starts with PREFIX and prefixKey is idempotent for every ID.
KeyTranslationOfUnprefixedIds ==
    (call.op = "set" /\ call.id.t = "string") =>
        LET id == call.id
            key == toKey(kopts, id).v
        IN /\ ~startsWith(id.v, PREFIX(kopts)) =>
                  /\ toId(kopts, key) = id.v
                  /\ \A other \in StringIds :
                         (other.v # id.v /\ ~startsWith(other.v, PREFIX(kopts)))
                             => toKey(kopts, other).v # key
           /\ startsWith(key, PREFIX(kopts))
           /\ prefixKey(kopts, prefixKey(kopts, id.v)) = prefixKey(kopts, id.v)

\* C16: in a store with a ttl every key that exists as the store wrote it expires after
\* ttl seconds; in a store without a ttl set() hands the caller's options to the client.
C16_WrittenKeysCarryTtl ==
    /\ kopts.ttl # 0 => \A r \in db : r.key \in written => r.ex = kopts.ttl
    /\ (kopts.ttl = 0 /\ call.op = "set" /\ sent # <<>>) =>
           sent[1].args[3] = (IF call.options = <<>> THEN EmptyOptions ELSE call.options[1])

\* set() alone does so: the key it wrote expires after ttl seconds, whatever the caller's
\* options, and without a ttl the caller's options reach the client.
SetCarriesTtl ==
    /\ (kopts.ttl # 0 /\ call.op = "set" /\ call.outcome.t = "string") =>
           Entry(db, toKey(kopts, call.id).v).ex = kopts.ttl
    /\ (kopts.ttl = 0 /\ call.op = "set" /\ sent # <<>>) =>
           sent[1].args[3] = (IF call.options = <<>> THEN EmptyOptions ELSE call.options[1])

====
